---- MODULE Spec2Model ----
(***************************************************************************)
(* A model of the Linkurious REST client (src/linkurious/__init__.py).     *)
(*                                                                         *)
(* The client holds a tortilla wrapper bound to "<host>/api" and a boolean *)
(* `authenticated` flag.  Every method builds one request descriptor       *)
(* (verb, url, params mapping, data mapping) and hands it to the wrapper.  *)
(*                                                                         *)
(* Python values are modelled with their type, because the claims are      *)
(* about truthiness (`if x:`), about None and about bool versus int.       *)
(* A mapping (a dict) is a set of <<key, value>> pairs, one pair per key,  *)
(* so that "the key is absent" and "the key is present with None" differ.  *)
(***************************************************************************)
EXTENDS Integers, Sequences, FiniteSets, TLC

VARIABLES
    alive,          \* a client instance exists (its constructor returned)
    _wrapper,       \* self._wrapper: [base, nreq], the transport handle
    authenticated,  \* self.authenticated
    last,           \* the last call: its arguments, the request it issued, the error it raised
    everLoginOk     \* history: some authenticate on this instance got a matching login response

vars == <<alive, _wrapper, authenticated, last, everLoginOk>>

\* How many HTTP requests one client instance issues before the model stops it.
MaxRequests == 2

----------------------------------------------------------------------------
(* Python values *)

Py(t, v) == [t |-> t, v |-> v]
None == Py("NoneType", "None")
True == Py("bool", "True")
False == Py("bool", "False")
PyInt(s) == Py("int", s)
PyStr(s) == Py("str", s)
PyList(s) == Py("list", s)
PyDict(s) == Py("dict", s)

\* bool(x), as `if x:` and `x and y` evaluate it
Truthy(x) ==
    CASE x.t = "NoneType" -> FALSE
      [] x.t = "bool" -> x.v = "True"
      [] x.t = "int" -> x.v # "0"
      [] x.t = "str" -> x.v # ""
      [] x.t = "list" -> x.v # "[]"
      [] x.t = "dict" -> x.v # "{}"

\* `key in mapping` and mapping[key]
HasKey(m, k) == \E e \in m : e[1] = k
Get(m, k) == (CHOOSE e \in m : e[1] = k)[2]
\* mapping[key] = value on a dict under construction
Put(m, k, v) == {e \in m : e[1] # k} \cup {<<k, v>>}

----------------------------------------------------------------------------
(* The transport *)

NoError == "none"
NoRequest == [verb |-> "none", url |-> "", params |-> {}, data |-> {}]
NoResponse == {}

\* tortilla.wrap(f"{host}/api")
wrap(host) == [base |-> host \o "/api", nreq |-> 0]

\* One HTTP call through the wrapper, self.get_wrapper().<verb>(path, params=,
\* data=): the request descriptor handed to the transport, and the client after
\* it.  The wrapper is the only thing the call touches.
get_wrapper(self, verb, path, params, data) ==
    [self |-> [self EXCEPT !._wrapper.nreq = @ + 1],
     request |-> [verb |-> verb, url |-> self._wrapper.base \o "/" \o path,
                  params |-> params, data |-> data],
     error |-> NoError]

\* raise LinkuriousException(message): nothing is sent, the client is as it was
Raise(self, request, message) == [self |-> self, request |-> request, error |-> message]

----------------------------------------------------------------------------
(* Authentication *)

ApikeyNotImplemented == "apikey authentication not yet implemented"
NoCredential == "could not authenticate without password or apikey"
CouldNotAuthenticate(res) == "could not authenticate " \o Get(res, "reason").v

\* `'email' in res and res.email == username`
LoginAccepted(res, username) == HasKey(res, "email") /\ Get(res, "email") = username

\* Variants of authenticate, each with one slip, which the properties below must tell
\* from the code: (1) a client already authenticated is not logged in again;
authenticate_once(self, username, password, apikey, res) ==
    IF Truthy(username) /\ Truthy(password)
    THEN IF self.authenticated
         THEN [self |-> self, request |-> NoRequest, error |-> NoError]
         ELSE LET sent == get_wrapper(self, "POST", "auth/login", {},
                              {<<"usernameOrEmail", username>>, <<"password", password>>})
              IN  IF LoginAccepted(res, username)
                  THEN [sent EXCEPT !.self.authenticated = TRUE]
                  ELSE Raise(sent.self, sent.request, CouldNotAuthenticate(res))
    ELSE IF Truthy(username) /\ Truthy(apikey)
         THEN Raise(self, NoRequest, ApikeyNotImplemented)
         ELSE Raise(self, NoRequest, NoCredential)

\* (2) any response with an email field is accepted;
authenticate_any_email(self, username, password, apikey, res) ==
    IF Truthy(username) /\ Truthy(password)
    THEN LET sent == get_wrapper(self, "POST", "auth/login", {},
                         {<<"usernameOrEmail", username>>, <<"password", password>>})
         IN  IF HasKey(res, "email")
             THEN [sent EXCEPT !.self.authenticated = TRUE]
             ELSE Raise(sent.self, sent.request, CouldNotAuthenticate(res))
    ELSE IF Truthy(username) /\ Truthy(apikey)
         THEN Raise(self, NoRequest, ApikeyNotImplemented)
         ELSE Raise(self, NoRequest, NoCredential)

\* (3) the apikey branch is missing;
authenticate_no_apikey_branch(self, username, password, apikey, res) ==
    IF Truthy(username) /\ Truthy(password)
    THEN LET sent == get_wrapper(self, "POST", "auth/login", {},
                         {<<"usernameOrEmail", username>>, <<"password", password>>})
         IN  IF LoginAccepted(res, username)
             THEN [sent EXCEPT !.self.authenticated = TRUE]
             ELSE Raise(sent.self, sent.request, CouldNotAuthenticate(res))
    ELSE Raise(self, NoRequest, NoCredential)

\* (4) the apikey branch tests the username alone;
authenticate_apikey_untested(self, username, password, apikey, res) ==
    IF Truthy(username) /\ Truthy(password)
    THEN LET sent == get_wrapper(self, "POST", "auth/login", {},
                         {<<"usernameOrEmail", username>>, <<"password", password>>})
         IN  IF LoginAccepted(res, username)
             THEN [sent EXCEPT !.self.authenticated = TRUE]
             ELSE Raise(sent.self, sent.request, CouldNotAuthenticate(res))
    ELSE IF Truthy(username)
         THEN Raise(self, NoRequest, ApikeyNotImplemented)
         ELSE Raise(self, NoRequest, NoCredential)

\* (5) a failed login clears the flag.
authenticate_clears_flag(self, username, password, apikey, res) ==
    IF Truthy(username) /\ Truthy(password)
    THEN LET sent == get_wrapper(self, "POST", "auth/login", {},
                         {<<"usernameOrEmail", username>>, <<"password", password>>})
         IN  IF LoginAccepted(res, username)
             THEN [sent EXCEPT !.self.authenticated = TRUE]
             ELSE Raise([sent.self EXCEPT !.authenticated = FALSE], sent.request,
                        CouldNotAuthenticate(res))
    ELSE IF Truthy(username) /\ Truthy(apikey)
         THEN Raise(self, NoRequest, ApikeyNotImplemented)
         ELSE Raise(self, NoRequest, NoCredential)

authenticate(self, username, password, apikey, res) ==
    IF Truthy(username) /\ Truthy(password)
    THEN LET sent == get_wrapper(self, "POST", "auth/login",
                         {}, {<<"usernameOrEmail", username>>, <<"password", password>>})
         IN  IF LoginAccepted(res, username)
             THEN [sent EXCEPT !.self.authenticated = TRUE]
             ELSE Raise(sent.self, sent.request, CouldNotAuthenticate(res))
    ELSE IF Truthy(username) /\ Truthy(apikey)
         THEN Raise(self, NoRequest, ApikeyNotImplemented)
         ELSE Raise(self, NoRequest, NoCredential)

\* A constructor that forwards the password only
__init___without_apikey(host, username, password, apikey, res) ==
    LET self == [_wrapper |-> wrap(host), authenticated |-> FALSE]
    IN  IF Truthy(username)
        THEN authenticate(self, username, password, None, res)
        ELSE [self |-> self, request |-> NoRequest, error |-> NoError]

\* The class attributes and the constructor
__init__(host, username, password, apikey, res) ==
    LET self == [_wrapper |-> wrap(host), authenticated |-> FALSE]
    IN  IF Truthy(username)
        THEN authenticate(self, username, password, apikey, res)
        ELSE [self |-> self, request |-> NoRequest, error |-> NoError]

----------------------------------------------------------------------------
(* Endpoint methods: each builds one request and hands it to the wrapper *)

\* A status call that also marks the client authenticated
status_marks_authenticated(self) ==
    [get_wrapper(self, "GET", "status", {}, {}) EXCEPT !.self.authenticated = TRUE]

status(self) == get_wrapper(self, "GET", "status", {}, {})

version(self) == get_wrapper(self, "GET", "version", {}, {})

get_custom_files(self, root, extensions) ==
    get_wrapper(self, "GET", "customFiles",
                {<<"root", root>>, <<"extensions", extensions>>}, {})

get_sources_status(self, with_styles, with_captions) ==
    LET styles == IF Truthy(with_styles) THEN PyInt("1") ELSE with_styles
        captions == IF Truthy(with_captions) THEN PyInt("1") ELSE with_captions
    IN  get_wrapper(self, "GET", "dataSources",
                    {<<"with_styles", styles>>, <<"with_captions", captions>>}, {})

get_sources_info(self) == get_wrapper(self, "GET", "admin/sources", {}, {})

get_config(self, source_index) ==
    get_wrapper(self, "GET", "config", {<<"sourceIndex", source_index>>}, {})

update_config(self, source_index, path, configuration_value, reset) ==
    LET d0 == {<<"sourceIndex", source_index>>, <<"reset", reset>>}
        d1 == IF Truthy(path) THEN Put(d0, "path", path) ELSE d0
        d2 == IF Truthy(configuration_value)
              THEN Put(d1, "configuration", configuration_value) ELSE d1
    IN  get_wrapper(self, "POST", "config", {}, d2)

get_applications(self) == get_wrapper(self, "GET", "admin/applications", {}, {})

create_application(self, name, groups, rights, enabled) ==
    get_wrapper(self, "POST", "admin/applications", {},
                {<<"name", name>>, <<"groups", groups>>, <<"rights", rights>>,
                 <<"enabled", enabled>>})

\* The code posts to admin/applications (the documented route is PATCH .../:id).
update_application(self, id, name, enabled, groups, rights) ==
    LET d0 == {<<"id", id>>, <<"enabled", enabled>>}
        d1 == IF Truthy(groups) THEN Put(d0, "groups", groups) ELSE d0
        d2 == IF Truthy(rights) THEN Put(d1, "rights", rights) ELSE d1
        d3 == IF Truthy(name) THEN Put(d2, "name", name) ELSE d2
    IN  get_wrapper(self, "POST", "admin/applications", {}, d3)

run_cypher_query(self, sourcekey, query, with_digest, with_degree) ==
    get_wrapper(self, "POST", sourcekey.v \o "/graph/run/query", {},
                {<<"query", query>>, <<"dialect", PyStr("cypher")>>,
                 <<"withDigest", with_digest>>, <<"withDegree", with_degree>>})

get_visualizations_tree(self, sourcekey) ==
    get_wrapper(self, "GET", sourcekey.v \o "/visualizations/tree", {}, {})

get_visualization(self, sourcekey, id, with_digest, with_degree) ==
    get_wrapper(self, "GET", sourcekey.v \o "/visualizations/" \o id.v,
                {<<"withDigest", with_digest>>, <<"withDegree", with_degree>>}, {})

create_visualization(self, sourcekey, title, nodes, edges) ==
    get_wrapper(self, "POST", sourcekey.v \o "/visualizations", {},
                {<<"title", title>>,
                 <<"layout", PyDict("{'algorithm': 'force', 'mode': 'fast'}")>>,
                 <<"nodes", nodes>>, <<"edges", edges>>,
                 <<"alternativeIds", PyDict("{'node': 'id', 'edge': 'id'}")>>})

update_visualization(self, sourcekey, id, visualization, force_lock, do_layout) ==
    LET v == IF visualization = None THEN PyDict("{}") ELSE visualization
        d0 == Put({}, "visualization", v)
        d1 == IF Truthy(force_lock) THEN Put(d0, "forceLock", True) ELSE d0
        d2 == IF Truthy(do_layout) THEN Put(d1, "doLayout", True) ELSE d1
    IN  get_wrapper(self, "PATCH", sourcekey.v \o "/visualizations/" \o id.v, {}, d2)

delete_visualization(self, sourcekey, id) ==
    get_wrapper(self, "DELETE", sourcekey.v \o "/visualizations/" \o id.v, {}, {})

get_visualization_share_rights(self, sourcekey, id) ==
    get_wrapper(self, "GET", sourcekey.v \o "/visualizations/" \o id.v \o "/shares", {}, {})

share_visualization(self, sourcekey, id, user_id, right) ==
    get_wrapper(self, "PUT",
                sourcekey.v \o "/visualizations/" \o id.v \o "/share/" \o user_id.v,
                {}, {<<"right", right>>})

unshare_visualization(self, sourcekey, id, user_id) ==
    get_wrapper(self, "DELETE",
                sourcekey.v \o "/visualizations/" \o id.v \o "/share/" \o user_id.v,
                {}, {})

get_users(self, starts_with, contains, group_id, limit, offset, sort_by, sort_direction) ==
    LET p1 == IF Truthy(starts_with) THEN Put({}, "starts_with", starts_with) ELSE {}
        p2 == IF Truthy(contains) THEN Put(p1, "contains", contains) ELSE p1
        p3 == IF Truthy(group_id) THEN Put(p2, "group_id", group_id) ELSE p2
        p4 == IF Truthy(limit) THEN Put(p3, "limit", limit) ELSE p3
        p5 == IF Truthy(offset) THEN Put(p4, "offset", offset) ELSE p4
        p6 == IF Truthy(sort_by) THEN Put(p5, "sort_by", sort_by) ELSE p5
        p7 == IF Truthy(sort_direction) THEN Put(p6, "sort_direction", sort_direction) ELSE p6
    IN  get_wrapper(self, "GET", "users", p7, {})

get_groups(self, sourcekey) ==
    get_wrapper(self, "GET", "admin/" \o sourcekey.v \o "/groups", {}, {})

\* The parameters a signature declares Optional with default None, each with
\* the key it travels under: <<argument, key>>.
OptionalParams(op) ==
    CASE op = "authenticate" -> {<<"password", "password">>, <<"apikey", "apikey">>}
      [] op = "get_custom_files" -> {<<"root", "root">>, <<"extensions", "extensions">>}
      [] op = "update_config" ->
            {<<"path", "path">>, <<"configuration_value", "configuration">>}
      [] op = "update_application" ->
            {<<"name", "name">>, <<"groups", "groups">>, <<"rights", "rights">>}
      [] op = "update_visualization" -> {<<"visualization", "visualization">>}
      [] op = "get_users" ->
            {<<"starts_with", "starts_with">>, <<"contains", "contains">>,
             <<"group_id", "group_id">>, <<"limit", "limit">>, <<"offset", "offset">>,
             <<"sort_by", "sort_by">>, <<"sort_direction", "sort_direction">>}
      [] OTHER -> {}

----------------------------------------------------------------------------
(* Inputs *)

Hosts == {"https://linkurious.example"}
Usernames == {None, PyStr(""), PyStr("alice"), PyStr("bob")}
Passwords == {None, PyStr(""), PyStr("pw")}
Apikeys == {None, PyStr(""), PyStr("key")}
\* Login response bodies: with a matching, a different or no email field.  A
\* body always states a reason, which is what the failure branch reads.
LoginResponses ==
    {{<<"reason", PyStr("Unauthorized")>>}}
    \cup {{<<"email", PyStr(e)>>, <<"reason", PyStr("OK")>>} : e \in {"alice", "bob", "carol"}}

Bools == {False, True}
OptStrs == {None, PyStr(""), PyStr("a")}
OptInts == {None, PyInt("0"), PyInt("5")}
Filters == {None, PyStr("a")}
Limits == {None, PyInt("10")}
Offsets == {None, PyInt("0")}
SortDirections == {None, PyStr("asc")}
AppIds == {PyInt("7")}
SourceKeys == {PyStr("s1"), PyStr("s2")}
Ids == {PyInt("5"), PyInt("0")}
UserIds == {PyInt("9")}
SourceIndexes == {PyInt("0"), PyInt("1")}
ConfigValues == {None, False, True, PyInt("0"), PyStr("x"), PyDict("{}")}
Names == {PyStr("app")}
Groups == {PyList("[]"), PyList("[1]")}
Rights == {PyList("[]"), PyList("['visualization.read']")}
Queries == {PyStr("MATCH (n) RETURN n")}
Titles == {PyStr("T")}
Items == {PyList("[]"), PyList("[{'id': 1}]")}
Visualizations == {None, PyDict("{}"), PyDict("{'title': 'T'}")}
ShareRights == {PyStr("read"), PyStr("write")}

----------------------------------------------------------------------------
(* State machine *)

Self == [_wrapper |-> _wrapper, authenticated |-> authenticated]

Fresh(host) == [_wrapper |-> wrap(host), authenticated |-> FALSE]

\* A method call on the live instance: its result becomes the state.
Do(op, args, res, r) ==
    /\ alive
    /\ r.self._wrapper.nreq <= MaxRequests
    /\ _wrapper' = r.self._wrapper
    /\ authenticated' = r.self.authenticated
    /\ last' = [op |-> op, args |-> args, res |-> res, request |-> r.request,
                error |-> r.error, before |-> Self]
    /\ UNCHANGED alive

Init ==
    /\ alive = TRUE
    /\ \E host \in Hosts :
          /\ _wrapper = wrap(host)
          /\ last = [op |-> "__init__",
                     args |-> {<<"username", None>>, <<"password", None>>, <<"apikey", None>>},
                     res |-> NoResponse, request |-> NoRequest, error |-> NoError,
                     before |-> Fresh(host)]
    /\ authenticated = FALSE
    /\ everLoginOk = FALSE

\* Linkurious(host, username, password, apikey): a new instance replaces the old;
\* when the constructor raises there is no instance.
Construct ==
    \E host \in Hosts, username \in Usernames, password \in Passwords,
       apikey \in Apikeys, res \in LoginResponses :
        LET r == __init__(host, username, password, apikey, res)
        IN  /\ alive' = (r.error = NoError)
            /\ _wrapper' = r.self._wrapper
            /\ authenticated' = r.self.authenticated
            /\ last' = [op |-> "__init__",
                        args |-> {<<"username", username>>, <<"password", password>>,
                                  <<"apikey", apikey>>},
                        res |-> IF r.request = NoRequest THEN NoResponse ELSE res,
                        request |-> r.request, error |-> r.error, before |-> Fresh(host)]
            /\ everLoginOk' = (r.request # NoRequest /\ LoginAccepted(res, username))

Authenticate ==
    \E username \in Usernames, password \in Passwords, apikey \in Apikeys,
       res \in LoginResponses :
        LET r == authenticate(Self, username, password, apikey, res)
        IN  /\ Do("authenticate",
                  {<<"username", username>>, <<"password", password>>, <<"apikey", apikey>>},
                  IF r.request = NoRequest THEN NoResponse ELSE res, r)
            /\ everLoginOk' =
                  (everLoginOk \/ (r.request # NoRequest /\ LoginAccepted(res, username)))

\* A call of an endpoint method
Endpoint(op, args, r) == Do(op, args, NoResponse, r) /\ UNCHANGED everLoginOk

Status == Endpoint("status", {}, status(Self))

Version == Endpoint("version", {}, version(Self))

GetCustomFiles ==
    \E root \in OptStrs, extensions \in OptStrs :
        Endpoint("get_custom_files", {<<"root", root>>, <<"extensions", extensions>>},
                 get_custom_files(Self, root, extensions))

GetSourcesStatus ==
    \E with_styles \in Bools, with_captions \in Bools :
        Endpoint("get_sources_status",
                 {<<"with_styles", with_styles>>, <<"with_captions", with_captions>>},
                 get_sources_status(Self, with_styles, with_captions))

GetSourcesInfo == Endpoint("get_sources_info", {}, get_sources_info(Self))

GetConfig ==
    \E source_index \in SourceIndexes :
        Endpoint("get_config", {<<"source_index", source_index>>},
                 get_config(Self, source_index))

UpdateConfig ==
    \E source_index \in SourceIndexes, path \in OptStrs,
       configuration_value \in ConfigValues, reset \in Bools :
        Endpoint("update_config",
                 {<<"source_index", source_index>>, <<"path", path>>,
                  <<"configuration_value", configuration_value>>, <<"reset", reset>>},
                 update_config(Self, source_index, path, configuration_value, reset))

GetApplications == Endpoint("get_applications", {}, get_applications(Self))

CreateApplication ==
    \E name \in Names, groups \in Groups, rights \in Rights, enabled \in Bools :
        Endpoint("create_application",
                 {<<"name", name>>, <<"groups", groups>>, <<"rights", rights>>,
                  <<"enabled", enabled>>},
                 create_application(Self, name, groups, rights, enabled))

UpdateApplication ==
    \E id \in AppIds, name \in OptStrs, enabled \in Bools,
       groups \in Groups \cup {None}, rights \in Rights \cup {None} :
        Endpoint("update_application",
                 {<<"id", id>>, <<"name", name>>, <<"enabled", enabled>>,
                  <<"groups", groups>>, <<"rights", rights>>},
                 update_application(Self, id, name, enabled, groups, rights))

RunCypherQuery ==
    \E sourcekey \in SourceKeys, query \in Queries, with_digest \in Bools,
       with_degree \in Bools :
        Endpoint("run_cypher_query",
                 {<<"sourcekey", sourcekey>>, <<"query", query>>,
                  <<"with_digest", with_digest>>, <<"with_degree", with_degree>>},
                 run_cypher_query(Self, sourcekey, query, with_digest, with_degree))

GetVisualizationsTree ==
    \E sourcekey \in SourceKeys :
        Endpoint("get_visualizations_tree", {<<"sourcekey", sourcekey>>},
                 get_visualizations_tree(Self, sourcekey))

GetVisualization ==
    \E sourcekey \in SourceKeys, id \in Ids, with_digest \in Bools, with_degree \in Bools :
        Endpoint("get_visualization",
                 {<<"sourcekey", sourcekey>>, <<"id", id>>,
                  <<"with_digest", with_digest>>, <<"with_degree", with_degree>>},
                 get_visualization(Self, sourcekey, id, with_digest, with_degree))

CreateVisualization ==
    \E sourcekey \in SourceKeys, title \in Titles, nodes \in Items, edges \in Items :
        Endpoint("create_visualization",
                 {<<"sourcekey", sourcekey>>, <<"title", title>>, <<"nodes", nodes>>,
                  <<"edges", edges>>},
                 create_visualization(Self, sourcekey, title, nodes, edges))

UpdateVisualization ==
    \E sourcekey \in SourceKeys, id \in Ids, visualization \in Visualizations,
       force_lock \in Bools, do_layout \in Bools :
        Endpoint("update_visualization",
                 {<<"sourcekey", sourcekey>>, <<"id", id>>,
                  <<"visualization", visualization>>, <<"force_lock", force_lock>>,
                  <<"do_layout", do_layout>>},
                 update_visualization(Self, sourcekey, id, visualization, force_lock,
                                      do_layout))

DeleteVisualization ==
    \E sourcekey \in SourceKeys, id \in Ids :
        Endpoint("delete_visualization", {<<"sourcekey", sourcekey>>, <<"id", id>>},
                 delete_visualization(Self, sourcekey, id))

GetVisualizationShareRights ==
    \E sourcekey \in SourceKeys, id \in Ids :
        Endpoint("get_visualization_share_rights",
                 {<<"sourcekey", sourcekey>>, <<"id", id>>},
                 get_visualization_share_rights(Self, sourcekey, id))

ShareVisualization ==
    \E sourcekey \in SourceKeys, id \in Ids, user_id \in UserIds, right \in ShareRights :
        Endpoint("share_visualization",
                 {<<"sourcekey", sourcekey>>, <<"id", id>>, <<"user_id", user_id>>,
                  <<"right", right>>},
                 share_visualization(Self, sourcekey, id, user_id, right))

UnshareVisualization ==
    \E sourcekey \in SourceKeys, id \in Ids, user_id \in UserIds :
        Endpoint("unshare_visualization",
                 {<<"sourcekey", sourcekey>>, <<"id", id>>, <<"user_id", user_id>>},
                 unshare_visualization(Self, sourcekey, id, user_id))

GetUsers ==
    \E starts_with \in OptStrs, contains \in Filters, group_id \in OptInts,
       limit \in Limits, offset \in Offsets, sort_by \in Filters,
       sort_direction \in SortDirections :
        Endpoint("get_users",
                 {<<"starts_with", starts_with>>, <<"contains", contains>>,
                  <<"group_id", group_id>>, <<"limit", limit>>, <<"offset", offset>>,
                  <<"sort_by", sort_by>>, <<"sort_direction", sort_direction>>},
                 get_users(Self, starts_with, contains, group_id, limit, offset, sort_by,
                           sort_direction))

GetGroups ==
    \E sourcekey \in SourceKeys :
        Endpoint("get_groups", {<<"sourcekey", sourcekey>>}, get_groups(Self, sourcekey))

Next ==
    \/ Construct
    \/ Authenticate
    \/ Status
    \/ Version
    \/ GetCustomFiles
    \/ GetSourcesStatus
    \/ GetSourcesInfo
    \/ GetConfig
    \/ UpdateConfig
    \/ GetApplications
    \/ CreateApplication
    \/ UpdateApplication
    \/ RunCypherQuery
    \/ GetVisualizationsTree
    \/ GetVisualization
    \/ CreateVisualization
    \/ UpdateVisualization
    \/ DeleteVisualization
    \/ GetVisualizationShareRights
    \/ ShareVisualization
    \/ UnshareVisualization
    \/ GetUsers
    \/ GetGroups

Spec == Init /\ [][Next]_vars

----------------------------------------------------------------------------
(* Properties *)

Arg(name) == Get(last.args, name)
Params == last.request.params
Data == last.request.data
Sent == last.request # NoRequest
SentOne == Sent /\ _wrapper.nreq = last.before._wrapper.nreq + 1
SentNone == ~Sent /\ _wrapper = last.before._wrapper
FlagUnchanged == authenticated = last.before.authenticated
PasswordLogin ==
    last.op = "authenticate" /\ Truthy(Arg("username")) /\ Truthy(Arg("password"))
LoginRequest ==
    [verb |-> "POST", url |-> last.before._wrapper.base \o "/auth/login", params |-> {},
     data |-> {<<"usernameOrEmail", Arg("username")>>, <<"password", Arg("password")>>}]
EmailMatches == HasKey(last.res, "email") /\ Get(last.res, "email") = Arg("username")

\* C1: authenticate(username, password) with both non-empty issues exactly one
\* login request carrying {usernameOrEmail, password}, whatever the flag was
\* before; when the response's email equals the username, the flag is true
\* afterwards and no error is raised.
C1_PasswordLoginSendsAndSucceeds ==
    PasswordLogin =>
        /\ last.request = LoginRequest
        /\ SentOne
        /\ EmailMatches => (authenticated /\ last.error = NoError)

\* A second authenticate on an authenticated client that logged in again.
C1_Witness ==
    PasswordLogin /\ last.before.authenticated /\ SentOne /\ EmailMatches
    /\ authenticated /\ last.error = NoError

C4_NoCredential ==
    (last.op = "authenticate" /\ ~Truthy(Arg("password")) /\ ~Truthy(Arg("apikey"))) =>
        /\ last.error = NoCredential
        /\ SentNone
        /\ FlagUnchanged

C4_Witness ==
    last.op = "authenticate" /\ Arg("username") = PyStr("alice")
    /\ Arg("password") = None /\ Arg("apikey") = None
    /\ last.error = NoCredential /\ authenticated /\ last.before.authenticated

\* C5: the constructor given a username ends exactly as a client built without
\* one and then authenticate(username, password, apikey): flag, requests and
\* error agree, and construction fails when authenticate raises; given no
\* username it sends nothing and yields a client whose flag is false.
C5_ConstructorIsAuthenticate ==
    last.op = "__init__" =>
        /\ last.before.authenticated = FALSE
        /\ last.before._wrapper.nreq = 0
        /\ IF Truthy(Arg("username"))
           THEN LET r == authenticate(last.before, Arg("username"), Arg("password"),
                                      Arg("apikey"), last.res)
                IN  /\ Self = r.self
                    /\ last.request = r.request
                    /\ last.error = r.error
                    /\ alive = (r.error = NoError)
           ELSE alive /\ ~authenticated /\ SentNone /\ last.error = NoError

\* Constructors with a username: one that succeeded, and the apikey one that raised.
C5_Witness ==
    /\ last.op = "__init__" /\ Truthy(Arg("username"))
    /\ \/ alive /\ authenticated /\ SentOne
       \/ ~alive /\ last.error = ApikeyNotImplemented

\* C6: an optional parameter the caller omits (None, its default) has no key
\* in the params or data mapping handed to the transport.
C6_OmittedParamsAbsent ==
    Sent => \A pk \in OptionalParams(last.op) :
                Arg(pk[1]) = None => (~HasKey(Params, pk[2]) /\ ~HasKey(Data, pk[2]))

\* C7: get_sources_status sends with_styles and with_captions as the integers
\* 1 (for true) and 0 (for false), never as booleans.
C7_BooleansAsIntegers ==
    last.op = "get_sources_status" =>
        \A k \in {"with_styles", "with_captions"} :
            /\ HasKey(Params, k)
            /\ Get(Params, k) = IF Arg(k) = True THEN PyInt("1") ELSE PyInt("0")

\* C8: every endpoint method other than authenticate issues exactly one HTTP
\* request and leaves the flag unchanged, whatever the client's state; the
\* flag changes only inside authenticate (which the constructor may call).
C8_EndpointsSendOneAndKeepFlag ==
    /\ last.op \notin {"authenticate", "__init__"} => (SentOne /\ FlagUnchanged)
    /\ ~FlagUnchanged => last.op \in {"authenticate", "__init__"}

\* Endpoint calls on a client that never authenticated and on one that did.
C8_Witness ==
    last.op = "status" /\ SentOne /\ last.before.authenticated /\ authenticated

\* C9: in update_config, update_application and get_users every optional
\* argument the caller supplies (anything but None) is in the data or params
\* mapping under its key with that value, falsy values included.
C9_SuppliedParamsPresent ==
    last.op \in {"update_config", "update_application", "get_users"} =>
        \A pk \in OptionalParams(last.op) :
            Arg(pk[1]) # None =>
                \/ HasKey(Params, pk[2]) /\ Get(Params, pk[2]) = Arg(pk[1])
                \/ HasKey(Data, pk[2]) /\ Get(Data, pk[2]) = Arg(pk[1])

\* C10: on one instance the flag is true only if an earlier authenticate got
\* a login response whose email equals the username, and once true it stays
\* true after every later call, failing authenticate calls included.
C10_FlagMonotonic ==
    /\ authenticated => everLoginOk
    /\ (last.op # "__init__" /\ last.before.authenticated) => authenticated

\* An authenticated client on which a later login got a response with no email.
C10_Witness ==
    PasswordLogin /\ ~HasKey(last.res, "email") /\ last.error # NoError
    /\ last.before.authenticated /\ authenticated /\ everLoginOk

====
